---- MODULE Spec2Model ----
(***************************************************************************)
(* Model of src/main.py: the Scribd-to-PDF Streamlit script.               *)
(*                                                                         *)
(* Strings are sequences of tokens (a token stands for a run of            *)
(* characters that the regular expression of convert_scribd_link treats    *)
(* as a unit).  A document is a sequence of element nodes in document      *)
(* order, each with its tag, class attribute, id attribute, own text and   *)
(* parent, together with the set of nodes still attached and the number    *)
(* of <style> elements appended to <head>.                                 *)
(***************************************************************************)
EXTENDS Integers, Sequences, FiniteSets

VARIABLES
    url_input,      \* st.text_input value of this script run
    embed_url,      \* convert_scribd_link(url_input), once computed
    pc,             \* position of the script run
    driver,         \* "none" | "open" | "closed": the webdriver session
    sessions,       \* number of sessions webdriver.Chrome created in this run
    quits,          \* number of driver.quit() calls in this run
    dom0,           \* the document as driver.get loaded it
    dom,            \* the live document of the session
    page_elements,  \* result of find_elements, node ids in list order
    index,          \* number of loop iterations of the scroll loop done
    progress,       \* values handed to the progress bar, in order
    ops,            \* browser operations issued, in order
    exc,            \* message of the exception being propagated
    errors,         \* st.error messages shown
    pdf_data,       \* payload Page.printToPDF returned
    result,         \* return value of generate_pdf
    failed_at,      \* step whose call raised or returned the failure value
    escaped,        \* an exception left generate_pdf
    shown,          \* other widgets shown: "info", "toast", "success"
    download,       \* the st.download_button, when offered
    runs            \* number of executions of cleanup_script on dom

vars == <<url_input, embed_url, pc, driver, sessions, quits, dom0, dom,
          page_elements, index, progress, ops, exc, errors, pdf_data, result,
          failed_at, escaped, shown, download, runs>>

(***************************************************************************)
(* Bounds of the model.                                                    *)
(***************************************************************************)
MaxUrlLen == 5      \* tokens of a URL drawn for the normalizer
MaxPages == 2       \* element nodes of a document loaded by the pipeline
MaxNodes == 3       \* element nodes of a document drawn for the sanitizer
MaxData == 2        \* tokens of the 'data' field of a printToPDF payload
MaxRuns == 2        \* repeated executions of cleanup_script

(***************************************************************************)
(* Python values: None and a present value.                                *)
(***************************************************************************)
None == [isNone |-> TRUE, val |-> <<>>]

Some(v) == [isNone |-> FALSE, val |-> v]

Truthy(x) == ~x.isNone /\ x.val # <<>>

(***************************************************************************)
(* URL tokens.                                                             *)
(***************************************************************************)
WWW == "https://www.scribd.com"

OtherHost == "https://es.scribd.com"

DOCUMENT == "/document/"

Digits == {"4", "2"}

UrlTokens == {WWW, OtherHost, DOCUMENT, "/", "x"} \cup Digits

RECURSIVE Strings(_, _)
Strings(alphabet, n) ==
    IF n = 0 THEN {<<>>}
    ELSE LET shorter == Strings(alphabet, n - 1)
         IN  shorter \cup {Append(s, t) : s \in {x \in shorter : Len(x) = n - 1},
                                          t \in alphabet}

(***************************************************************************)
(* re.search(r'https://www\.scribd\.com/document/(\d+)/', url)             *)
(***************************************************************************)
\* end of the greedy \d+ run that starts at position j: first non-digit
RECURSIVE DigitRunEnd(_, _)
DigitRunEnd(s, j) ==
    IF j <= Len(s) /\ s[j] \in Digits THEN DigitRunEnd(s, j + 1) ELSE j

\* mutant: the '/' that must follow the digits is not required
MatchAt_NoSlash(s, i) ==
    LET j == DigitRunEnd(s, i + 2)
    IN  IF /\ i + 1 <= Len(s)
           /\ s[i] = WWW
           /\ s[i + 1] = DOCUMENT
           /\ j > i + 2
        THEN Some(SubSeq(s, i + 2, j - 1))
        ELSE None

\* the pattern matched with its first character at position i
MatchAt(s, i) ==
    LET j == DigitRunEnd(s, i + 2)
    IN  IF /\ i + 1 <= Len(s)
           /\ s[i] = WWW
           /\ s[i + 1] = DOCUMENT
           /\ j > i + 2
           /\ j <= Len(s)
           /\ s[j] = "/"
        THEN Some(SubSeq(s, i + 2, j - 1))
        ELSE None

RECURSIVE SearchFrom(_, _)
SearchFrom(s, i) ==
    IF i > Len(s) THEN None
    ELSE LET m == MatchAt(s, i)
         IN  IF m.isNone THEN SearchFrom(s, i + 1) ELSE m

re_search(s) == SearchFrom(s, 1)

\* mutant: the digits are emitted in reverse order
convert_scribd_link_Reversed(url) ==
    LET match == re_search(url)
        rev(d) == [k \in 1..Len(d) |-> d[Len(d) + 1 - k]]
    IN  IF ~match.isNone
        THEN Some(<<WWW, "/embeds/">> \o rev(match.val) \o <<"/content">>)
        ELSE None

convert_scribd_link(url) ==
    LET match == re_search(url)
    IN  IF ~match.isNone
        THEN Some(<<WWW, "/embeds/">> \o match.val \o <<"/content">>)
        ELSE None

(***************************************************************************)
(* base64.b64decode(s) with the default validate=False: characters outside *)
(* the alphabet are discarded; what is left must be whole 4-character      *)
(* groups, else binascii.Error.  Token "AAAA" is a whole group (3 bytes),  *)
(* "A" a single alphabet character, "!" a character outside the alphabet.  *)
(***************************************************************************)
B64Tokens == {"AAAA", "A", "!"}

RECURSIVE CountOf(_, _)
CountOf(s, t) ==
    IF s = <<>> THEN 0
    ELSE (IF Head(s) = t THEN 1 ELSE 0) + CountOf(Tail(s), t)

b64decode(s) ==
    LET singles == CountOf(s, "A")
        groups == CountOf(s, "AAAA") + singles \div 4
    IN  IF singles % 4 # 0
        THEN [error |-> TRUE, bytes |-> <<>>]
        ELSE [error |-> FALSE, bytes |-> [k \in 1..groups |-> "3bytes"]]

\* a payload of Page.printToPDF: a dict with or without the key 'data'
NoPayload == [received |-> FALSE, hasData |-> FALSE, data |-> <<>>]

Payloads ==
    {[received |-> TRUE, hasData |-> FALSE, data |-> <<>>]} \cup
    {[received |-> TRUE, hasData |-> TRUE, data |-> d] : d \in Strings(B64Tokens, MaxData)}

(***************************************************************************)
(* Documents.                                                              *)
(***************************************************************************)
COOKIE_TEXT == "This website utilizes technologies such as cookies"

\* element kinds a viewer page is drawn from: tag, class, id, own text
NodeKinds ==
    {[tag |-> "div", cls |-> "outer_page", id |-> "", text |-> ""],
     [tag |-> "div", cls |-> "toolbar_top", id |-> "", text |-> ""],
     [tag |-> "div", cls |-> "document_scroller", id |-> "", text |-> ""],
     [tag |-> "div", cls |-> "promo_banner", id |-> "", text |-> COOKIE_TEXT],
     [tag |-> "div", cls |-> "", id |-> "onetrust-consent-sdk", text |-> COOKIE_TEXT],
     [tag |-> "div", cls |-> "", id |-> "", text |-> COOKIE_TEXT],
     [tag |-> "footer", cls |-> "", id |-> "", text |-> COOKIE_TEXT],
     [tag |-> "section", cls |-> "", id |-> "", text |-> COOKIE_TEXT],
     [tag |-> "div", cls |-> "", id |-> "", text |-> ""]}

MkNode(kind, parent) ==
    [tag |-> kind.tag, cls |-> kind.cls, id |-> kind.id, text |-> kind.text,
     parent |-> parent]

RECURSIVE Ancestors(_, _)
Ancestors(nodes, i) ==
    IF nodes[i].parent = 0 THEN {}
    ELSE {nodes[i].parent} \cup Ancestors(nodes, nodes[i].parent)

\* el and the elements below it
Subtree(nodes, el) == {el} \cup {j \in 1..Len(nodes) : el \in Ancestors(nodes, j)}

\* parent maps of k nodes in document order (preorder): the parent of a node
\* is the body (0), the node before it, or an ancestor of the node before it
RECURSIVE AncestorsIn(_, _)
AncestorsIn(ps, i) ==
    IF ps[i] = 0 THEN {} ELSE {ps[i]} \cup AncestorsIn(ps, ps[i])

ParentMaps(k) ==
    {ps \in [1..k -> 0..(k - 1)] :
        \A i \in 1..k :
            /\ ps[i] < i
            /\ ps[i] \in {0, i - 1} \/ ps[i] \in AncestorsIn(ps, i - 1)}

MkDoc(nodes) == [nodes |-> nodes, attached |-> 1..Len(nodes), styles |-> 0]

\* the document of k elements with kinds ks and parents ps
DocOf(k, ks, ps) == MkDoc([i \in 1..k |-> MkNode(ks[i], ps[i])])

EmptyDoc == MkDoc(<<>>)

\* the elements of a set of node ids in document order
RECURSIVE InOrder(_)
InOrder(S) ==
    IF S = {} THEN <<>>
    ELSE LET first == CHOOSE x \in S : \A y \in S : x <= y
         IN  <<first>> \o InOrder(S \ {first})

\* attribute-substring test of a selector such as [class*="promo"]
Contains(cls, marker) ==
    <<cls, marker>> \in {<<"outer_page", "page">>, <<"promo_banner", "promo">>}

\* the selectors of the script
PAGE_SELECTOR == "[class*='page']"

TOOLBAR_SELECTOR == ".toolbar_top, .toolbar_bottom"

PROMO_SELECTOR == "[class*=promo]"

FALLBACK_SELECTOR == "div, footer"

\* mutant: the fallback selects div elements only
FallbackTags_DivOnly == {"div"}

\* tags the text fallback selects
FallbackTags == {"div", "footer"}

\* element n matches the selector
Selects(sel, n) ==
    CASE sel = PAGE_SELECTOR -> Contains(n.cls, "page")
      [] sel = TOOLBAR_SELECTOR -> n.cls \in {"toolbar_top", "toolbar_bottom"}
      [] sel = PROMO_SELECTOR -> Contains(n.cls, "promo")
      [] sel = FALLBACK_SELECTOR -> n.tag \in FallbackTags

\* document.querySelectorAll: a static list, in document order
querySelectorAll(doc, sel) ==
    InOrder({el \in doc.attached : Selects(sel, doc.nodes[el])})

\* document.getElementsByClassName: evaluated on the document as it is now
getElementsByClassName(doc, cls) ==
    InOrder({el \in doc.attached : doc.nodes[el].cls = cls})

\* document.getElementById: the first element with the id, 0 for null
getElementById(doc, id) ==
    LET S == {el \in doc.attached : doc.nodes[el].id = id}
    IN  IF S = {} THEN 0 ELSE CHOOSE x \in S : \A y \in S : x <= y

\* el.remove(): el and what is below it leave the document
Remove(doc, el) ==
    [doc EXCEPT !.attached = @ \ Subtree(doc.nodes, el)]

RECURSIVE RemoveEach(_, _)
RemoveEach(doc, list) ==
    IF list = <<>> THEN doc
    ELSE RemoveEach(Remove(doc, Head(list)), Tail(list))

\* el.textContent of an element of the document: its text and the text of
\* the elements still below it
textContent(doc, el) ==
    {doc.nodes[j].text : j \in Subtree(doc.nodes, el) \cap doc.attached}

\* mutant: the list is returned in reverse document order
find_elements_Reversed(doc) ==
    LET l == querySelectorAll(doc, PAGE_SELECTOR)
    IN  [k \in 1..Len(l) |-> l[Len(l) + 1 - k]]

\* driver.find_elements("css selector", "[class*='page']")
find_elements(doc) ==
    querySelectorAll(doc, PAGE_SELECTOR)

(***************************************************************************)
(* cleanup_script, statement by statement.                                 *)
(***************************************************************************)
RemoveToolbars(doc) ==
    RemoveEach(doc, querySelectorAll(doc, TOOLBAR_SELECTOR))

\* for (var i = 0; i < scrollers.length; i++) over the live collection: an
\* element whose class is reset leaves the collection
RECURSIVE ResetScrollers(_, _)
ResetScrollers(doc, i) ==
    LET scrollers == getElementsByClassName(doc, "document_scroller")
    IN  IF i < Len(scrollers)
        THEN ResetScrollers([doc EXCEPT !.nodes[scrollers[i + 1]].cls = ""], i + 1)
        ELSE doc

RemovePromos(doc) ==
    RemoveEach(doc, querySelectorAll(doc, PROMO_SELECTOR))

RECURSIVE RemoveIds(_, _)
RemoveIds(doc, ids) ==
    IF ids = <<>> THEN doc
    ELSE LET el == getElementById(doc, Head(ids))
         IN  RemoveIds(IF el # 0 THEN Remove(doc, el) ELSE doc, Tail(ids))

\* the forEach callback of the text fallback; an element that an earlier
\* removal took out of the document leaves the document as it is
RECURSIVE RemoveCookieText(_, _)
RemoveCookieText(doc, list) ==
    IF list = <<>> THEN doc
    ELSE LET el == Head(list)
         IN  RemoveCookieText(
                 IF el \in doc.attached /\ COOKIE_TEXT \in textContent(doc, el)
                 THEN Remove(doc, el) ELSE doc,
                 Tail(list))

InjectStyle(doc) == [doc EXCEPT !.styles = @ + 1]

cleanup_script(doc) ==
    LET d1 == RemoveToolbars(doc)
        d2 == ResetScrollers(d1, 0)
        d3 == RemovePromos(d2)
        d4 == RemoveIds(d3, <<"onetrust-consent-sdk", "onetrust-banner-sdk">>)
        d5 == RemoveCookieText(d4, querySelectorAll(d4, FALLBACK_SELECTOR))
    IN  InjectStyle(d5)

(***************************************************************************)
(* Values of the run.                                                      *)
(***************************************************************************)
\* a progress value num/den, as the progress bar receives it
Frac(num, den) == [num |-> num, den |-> den]

FracLeq(a, b) == a.num * b.den <= b.num * a.den

\* mutant: the fraction is computed from index, not index + 1
ProgressValue_FromIndex(i, total_pages) == Frac(i, total_pages)

\* min((index + 1) / total_pages, 1.0)
ProgressValue(i, total_pages) ==
    IF i + 1 <= total_pages THEN Frac(i + 1, total_pages) ELSE Frac(1, 1)

Op(name, arg) == [op |-> name, arg |-> arg]

NoDownload == [offered |-> FALSE, data |-> <<>>, file_name |-> <<>>]

\* re.search(r'embeds/(\d+)/', embed_url).group(1)
EmbedId(url) == SubSeq(url, 3, DigitRunEnd(url, 3) - 1)

\* inputs of the script runs of the pipeline
RequestURLs ==
    {<<>>,
     <<WWW, DOCUMENT, "4", "2", "/", "x">>,
     <<"x", WWW, DOCUMENT, "2", "/">>,
     <<OtherHost, DOCUMENT, "4", "2", "/", "x">>,
     <<WWW, DOCUMENT, "4", "2">>,
     <<WWW, DOCUMENT, "/", "x">>,
     <<WWW, DOCUMENT, "x", "/">>,
     <<WWW, "/", "4", "/">>,
     <<"x">>}

\* the state the script run starts in, for the text input u
Fresh(u) ==
    /\ url_input = u
    /\ embed_url = None
    /\ pc = "ui"
    /\ driver = "none"
    /\ sessions = 0
    /\ quits = 0
    /\ dom0 = EmptyDoc
    /\ dom = EmptyDoc
    /\ page_elements = <<>>
    /\ index = 0
    /\ progress = <<>>
    /\ ops = <<>>
    /\ exc = ""
    /\ errors = <<>>
    /\ pdf_data = NoPayload
    /\ result = None
    /\ failed_at = "none"
    /\ escaped = FALSE
    /\ shown = {}
    /\ download = NoDownload
    /\ runs = 0

Init == \E u \in RequestURLs : Fresh(u)

(***************************************************************************)
(* The script run.                                                         *)
(***************************************************************************)
\* if url_input: ... else: st.info(...)
NoInput ==
    /\ pc = "ui"
    /\ url_input = <<>>
    /\ shown' = shown \cup {"info"}
    /\ pc' = "done"
    /\ UNCHANGED <<url_input, embed_url, driver, sessions, quits, dom0, dom,
                   page_elements, index, progress, ops, exc, errors, pdf_data,
                   result, failed_at, escaped, download, runs>>

\* the button is clicked: convert_scribd_link, then the branch on embed_url
ClickConvert ==
    /\ pc = "ui"
    /\ url_input # <<>>
    /\ embed_url' = convert_scribd_link(url_input)
    /\ IF Truthy(embed_url')
       THEN pc' = "setup_driver" /\ shown' = shown
       ELSE pc' = "done" /\ shown' = shown \cup {"toast"}
    /\ UNCHANGED <<url_input, driver, sessions, quits, dom0, dom, page_elements,
                   index, progress, ops, exc, errors, pdf_data, result,
                   failed_at, escaped, download, runs>>

\* driver = setup_driver(); if not driver: return None
\* chromium: /usr/bin/chromium exists; wdm: webdriver_manager was imported;
\* raises: install() or webdriver.Chrome(...) raises
SetupDriver ==
    /\ pc = "setup_driver"
    /\ \E chromium \in BOOLEAN, wdm \in BOOLEAN, raises \in BOOLEAN :
          IF ~chromium /\ ~wdm
          THEN /\ errors' = Append(errors, "Driver not found")
               /\ result' = None
               /\ failed_at' = "setup_driver"
               /\ pc' = "returned"
               /\ UNCHANGED <<driver, sessions, escaped>>
          ELSE IF raises
          THEN /\ escaped' = TRUE
               /\ failed_at' = "setup_driver"
               /\ pc' = "crashed"
               /\ UNCHANGED <<driver, sessions, errors, result>>
          ELSE /\ driver' = "open"
               /\ sessions' = sessions + 1
               /\ pc' = "get"
               /\ UNCHANGED <<errors, result, failed_at, escaped>>
    /\ UNCHANGED <<url_input, embed_url, quits, dom0, dom, page_elements, index,
                   progress, ops, exc, pdf_data, shown, download, runs>>

\* a call on the driver raised: control passes to the except clause
Raise(step, message) ==
    /\ failed_at' = step
    /\ exc' = message
    /\ pc' = "except"

\* driver.get(target_url)
Get ==
    /\ pc = "get"
    /\ ops' = Append(ops, Op("get", 0))
    /\ \/ /\ \E k \in 0..MaxPages :
                \E ks \in [1..k -> NodeKinds], ps \in ParentMaps(k) :
                   dom0' = DocOf(k, ks, ps) /\ dom' = dom0'
          /\ pc' = "find_elements"
          /\ UNCHANGED <<failed_at, exc>>
       \/ /\ Raise("get", "WebDriverException")
          /\ UNCHANGED <<dom0, dom>>
    /\ UNCHANGED <<url_input, embed_url, driver, sessions, quits, page_elements,
                   index, progress, errors, pdf_data, result, escaped, shown,
                   download, runs>>

\* page_elements = driver.find_elements(...); progress_bar = progress(0)
FindElements ==
    /\ pc = "find_elements"
    /\ ops' = Append(ops, Op("find_elements", 0))
    /\ \/ /\ page_elements' = find_elements(dom)
          /\ progress' = <<Frac(0, 1)>>
          /\ index' = 0
          /\ pc' = "scroll"
          /\ UNCHANGED <<failed_at, exc>>
       \/ /\ Raise("find_elements", "WebDriverException")
          /\ UNCHANGED <<page_elements, progress, index>>
    /\ UNCHANGED <<url_input, embed_url, driver, sessions, quits, dom0, dom,
                   errors, pdf_data, result, escaped, shown, download, runs>>

\* one iteration of: for index, page in enumerate(page_elements)
ScrollStep ==
    /\ pc = "scroll"
    /\ index < Len(page_elements)
    /\ ops' = Append(ops, Op("scrollIntoView", page_elements[index + 1]))
    /\ \/ /\ progress' = IF Len(page_elements) > 0
                         THEN Append(progress, ProgressValue(index, Len(page_elements)))
                         ELSE progress
          /\ index' = index + 1
          /\ UNCHANGED <<pc, failed_at, exc>>
       \/ /\ Raise("scroll", "StaleElementReferenceException")
          /\ UNCHANGED <<progress, index>>
    /\ UNCHANGED <<url_input, embed_url, driver, sessions, quits, dom0, dom,
                   page_elements, errors, pdf_data, result, escaped, shown,
                   download, runs>>

\* the loop is over: driver.execute_script(cleanup_script)
Cleanup ==
    /\ pc = "scroll"
    /\ index = Len(page_elements)
    /\ ops' = Append(ops, Op("cleanup_script", 0))
    /\ \/ /\ dom' = cleanup_script(dom)
          /\ runs' = runs + 1
          /\ pc' = "print"
          /\ UNCHANGED <<failed_at, exc>>
       \/ /\ Raise("cleanup", "JavascriptException")
          /\ UNCHANGED <<dom, runs>>
    /\ UNCHANGED <<url_input, embed_url, driver, sessions, quits, dom0,
                   page_elements, index, progress, errors, pdf_data, result,
                   escaped, shown, download>>

\* pdf_data = driver.execute_cdp_cmd("Page.printToPDF", ...)
\* return base64.b64decode(pdf_data['data'])
PrintToPDF ==
    /\ pc = "print"
    /\ ops' = Append(ops, Op("Page.printToPDF", 0))
    /\ \/ /\ Raise("print", "WebDriverException")
          /\ UNCHANGED <<pdf_data, result>>
       \/ \E p \in Payloads :
             /\ pdf_data' = p
             /\ IF ~p.hasData
                THEN Raise("decode", "KeyError: 'data'") /\ UNCHANGED result
                ELSE IF b64decode(p.data).error
                THEN Raise("decode", "binascii.Error: Incorrect padding")
                     /\ UNCHANGED result
                ELSE /\ result' = Some(b64decode(p.data).bytes)
                     /\ pc' = "finally"
                     /\ UNCHANGED <<failed_at, exc>>
    /\ UNCHANGED <<url_input, embed_url, driver, sessions, quits, dom0, dom,
                   page_elements, index, progress, errors, escaped, shown,
                   download, runs>>

\* mutant: the except clause closes the session as well
Except_Quits ==
    /\ pc = "except"
    /\ errors' = Append(errors, exc)
    /\ result' = None
    /\ driver' = "closed"
    /\ quits' = quits + 1
    /\ ops' = Append(ops, Op("quit", 0))
    /\ pc' = "finally"
    /\ UNCHANGED <<url_input, embed_url, sessions, dom0, dom, page_elements,
                   index, progress, exc, pdf_data, failed_at, escaped, shown,
                   download, runs>>

\* except Exception as e: st.error(f"Error: {str(e)}"); return None
Except ==
    /\ pc = "except"
    /\ errors' = Append(errors, exc)
    /\ result' = None
    /\ pc' = "finally"
    /\ UNCHANGED <<url_input, embed_url, driver, sessions, quits, dom0, dom,
                   page_elements, index, progress, ops, exc, pdf_data,
                   failed_at, escaped, shown, download, runs>>

\* finally: driver.quit()
Finally ==
    /\ pc = "finally"
    /\ driver' = "closed"
    /\ quits' = quits + 1
    /\ ops' = Append(ops, Op("quit", 0))
    /\ pc' = "returned"
    /\ UNCHANGED <<url_input, embed_url, sessions, dom0, dom, page_elements,
                   index, progress, exc, errors, pdf_data, result, failed_at,
                   escaped, shown, download, runs>>

\* if pdf_bytes: ... st.download_button(...)
AfterGenerate ==
    /\ pc = "returned"
    /\ IF Truthy(result)
       THEN /\ shown' = shown \cup {"success"}
            /\ download' = [offered |-> TRUE, data |-> result.val,
                            file_name |-> <<"scribd_doc_">> \o EmbedId(embed_url.val)
                                          \o <<".pdf">>]
       ELSE UNCHANGED <<shown, download>>
    /\ pc' = "done"
    /\ UNCHANGED <<url_input, embed_url, driver, sessions, quits, dom0, dom,
                   page_elements, index, progress, ops, exc, errors, pdf_data,
                   result, failed_at, escaped, runs>>

Next ==
    \/ NoInput
    \/ ClickConvert
    \/ SetupDriver
    \/ Get
    \/ FindElements
    \/ ScrollStep
    \/ Cleanup
    \/ PrintToPDF
    \/ Except
    \/ Finally
    \/ AfterGenerate

Spec == Init /\ [][Next]_vars

(***************************************************************************)
(* The normalizer on every URL of up to MaxUrlLen tokens: the script run   *)
(* up to the branch on embed_url.                                          *)
(***************************************************************************)
InitNormalizer == \E u \in Strings(UrlTokens, MaxUrlLen) : Fresh(u)

NextNormalizer ==
    \/ NoInput
    \/ ClickConvert

SpecNormalizer == InitNormalizer /\ [][NextNormalizer]_vars

(***************************************************************************)
(* The sanitizer on every document of up to MaxNodes elements: a session   *)
(* whose document is d, on which cleanup_script is executed, repeatedly.   *)
(***************************************************************************)
InitSanitizer ==
    /\ url_input = <<WWW, DOCUMENT, "4", "/">>
    /\ embed_url = convert_scribd_link(url_input)
    /\ pc = "cleanup_script"
    /\ driver = "open"
    /\ sessions = 1
    /\ quits = 0
    /\ \E k \in 0..MaxNodes :
          \E ks \in [1..k -> NodeKinds], ps \in ParentMaps(k) :
             dom0 = DocOf(k, ks, ps)
    /\ dom = dom0
    /\ page_elements = <<>>
    /\ index = 0
    /\ progress = <<>>
    /\ ops = <<>>
    /\ exc = ""
    /\ errors = <<>>
    /\ pdf_data = NoPayload
    /\ result = None
    /\ failed_at = "none"
    /\ escaped = FALSE
    /\ shown = {}
    /\ download = NoDownload
    /\ runs = 0

\* driver.execute_script(cleanup_script)
ExecuteCleanup ==
    /\ pc = "cleanup_script"
    /\ runs < MaxRuns
    /\ dom' = cleanup_script(dom)
    /\ runs' = runs + 1
    /\ ops' = Append(ops, Op("cleanup_script", 0))
    /\ UNCHANGED <<url_input, embed_url, pc, driver, sessions, quits, dom0,
                   page_elements, index, progress, exc, errors, pdf_data,
                   result, failed_at, escaped, shown, download>>

NextSanitizer == ExecuteCleanup

SpecSanitizer == InitSanitizer /\ [][NextSanitizer]_vars

(***************************************************************************)
(* Properties.                                                             *)
(***************************************************************************)
\* generate_pdf has returned, or an exception has left it
Returned == pc \in {"returned", "done", "crashed"}

\* C1: a session that was created is closed by exactly one driver.quit()
\* when generate_pdf returns, whatever step failed; it is never closed twice
\* and never left open.
C1_ClosedExactlyOnce ==
    /\ sessions <= 1
    /\ quits <= sessions
    /\ (Returned /\ sessions = 1) => (quits = 1 /\ driver = "closed")
    /\ (driver = "closed") => quits = 1

C1_Witness ==
    /\ pc = "returned"
    /\ sessions = 1
    /\ quits = 1
    /\ failed_at = "cleanup"
    /\ driver = "closed"

\* the pattern of convert_scribd_link, stated on positions: at i the prefix
\* https://www.scribd.com/document/, then k >= 1 digits, then '/'
WwwMatchAt(s, i, k) ==
    /\ k >= 1
    /\ i + 2 + k <= Len(s)
    /\ s[i] = WWW
    /\ s[i + 1] = DOCUMENT
    /\ \A j \in (i + 2)..(i + 1 + k) : s[j] \in Digits
    /\ s[i + 2 + k] = "/"

MatchesDocumentPattern(s) == \E i \in 1..Len(s), k \in 1..Len(s) : WwwMatchAt(s, i, k)

\* C2: for an input that does not match the document pattern,
\* convert_scribd_link returns None, no session is opened, no browser
\* operation is issued, no download is offered, and the toast is shown.
C2_InvalidNoSession ==
    ~MatchesDocumentPattern(url_input) =>
        /\ embed_url = None
        /\ sessions = 0
        /\ driver = "none"
        /\ ops = <<>>
        /\ ~download.offered
        /\ pc \in {"ui", "done"}
        /\ (pc = "done" /\ url_input # <<>>) => "toast" \in shown

C2_Witness ==
    /\ pc = "done"
    /\ url_input # <<>>
    /\ ~MatchesDocumentPattern(url_input)
    /\ "toast" \in shown
    /\ sessions = 0

\* a payload from which no PDF can be taken: no 'data', 'data' empty or with
\* no base64 character in it, or 'data' that ends inside a 4-character group
Unusable(p) ==
    \/ ~p.hasData
    \/ \A k \in 1..Len(p.data) : p.data[k] = "!"
    \/ CountOf(p.data, "A") % 4 # 0

\* C3: when Page.printToPDF raises or returns a payload with 'data'
\* missing, empty or undecodable, generate_pdf reports an error and returns
\* no bytes; it never returns an empty buffer.
C3_NoSilentEmptyBuffer ==
    /\ (pc \in {"finally", "returned", "done"} /\
        (failed_at = "print" \/ (pdf_data.received /\ Unusable(pdf_data))))
           => (result = None /\ errors # <<>>)
    /\ ~(~result.isNone /\ result.val = <<>>)

\* a step of the pipeline failed: a call raised, or the print step returned
\* an unusable payload
StepFailed ==
    \/ failed_at \in {"get", "find_elements", "scroll", "cleanup", "print", "decode"}
    \/ pdf_data.received /\ Unusable(pdf_data)

\* C4: a download is offered only after navigate, scroll, sanitize and print
\* all completed without failure; after a failed step or an invalid URL no
\* download is offered and a failure description is shown.
C4_DownloadOnlyOnSuccess ==
    /\ download.offered => (~StepFailed /\ pdf_data.received /\ runs = 1)
    /\ (pc = "done" /\ url_input # <<>> /\ (StepFailed \/ embed_url = None))
           => (~download.offered /\ (errors # <<>> \/ "toast" \in shown))

\* C5: whichever step fails, driver acquisition included, generate_pdf
\* returns None with an error shown and no exception leaves it.
C5_FailuresCaught ==
    /\ ~escaped
    /\ (Returned /\ failed_at # "none") => (result = None /\ errors # <<>>)

\* find_elements has returned and the scroll loop is over
ScrollDone == progress # <<>> /\ index = Len(page_elements)

\* C6: the progress values are non-decreasing, the value reported after
\* element index is (index + 1) / total, the last one is exactly 1 when
\* total > 0, and with total = 0 the scroll step cannot fail and reports
\* nothing after the initial 0.
C6_Progress ==
    LET total == Len(page_elements)
    IN  /\ \A k \in 1..(Len(progress) - 1) :
              /\ FracLeq(progress[k], progress[k + 1])
              /\ progress[k + 1].num * total = k * progress[k + 1].den
        /\ (progress # <<>>) => (progress[1] = Frac(0, 1) /\ Len(progress) = index + 1)
        /\ (ScrollDone /\ total > 0) =>
              progress[Len(progress)].num = progress[Len(progress)].den
        /\ (progress # <<>> /\ total = 0) =>
              (progress = <<Frac(0, 1)>> /\ failed_at # "scroll")

C6_Witness ==
    /\ pc = "print"
    /\ Len(page_elements) = 2
    /\ progress = <<Frac(0, 1), Frac(1, 2), Frac(2, 2)>>

\* C7: executing cleanup_script on a document it has already been executed
\* on leaves the document as it is, the style element included.
C7_Idempotent == (runs >= 1) => (cleanup_script(dom) = dom)

\* the elements of the loaded document with tag in tags
ElementsOf(tags) == {el \in 1..Len(dom0.nodes) : dom0.nodes[el].tag \in tags}

\* C8 as stated: after the sanitizer, every div, footer or section whose
\* text included the cookie text is absent from the document.
C8_CookieElementAbsent ==
    (runs >= 1) =>
        \A el \in ElementsOf({"div", "footer", "section"}) :
            (COOKIE_TEXT \in textContent(dom0, el)) => el \notin dom.attached

\* C8 amended: after the sanitizer, every div or footer whose own text
\* includes the cookie text is absent, and no div or footer left in the
\* document has text that includes it.
C8_DivFooterAbsent ==
    (runs >= 1) =>
        \A el \in ElementsOf({"div", "footer"}) :
            /\ (dom0.nodes[el].text = COOKIE_TEXT) => el \notin dom.attached
            /\ (el \in dom.attached) => COOKIE_TEXT \notin textContent(dom, el)

C8_Witness ==
    /\ runs = 1
    /\ \E el \in ElementsOf({"footer"}) :
          /\ dom0.nodes[el].parent = 0
          /\ el \notin dom.attached
    /\ \E el \in ElementsOf({"div"}) :
          /\ dom0.nodes[el].cls = ""
          /\ dom0.nodes[el].text = COOKIE_TEXT
          /\ el \notin dom.attached

\* https://<host>/document/<digits>/ at position i, for any host
HostMatchAt(s, i, k) ==
    /\ k >= 1
    /\ i + 2 + k <= Len(s)
    /\ s[i] \in {WWW, OtherHost}
    /\ s[i + 1] = DOCUMENT
    /\ \A j \in (i + 2)..(i + 1 + k) : s[j] \in Digits
    /\ s[i + 2 + k] = "/"

\* the canonical form for a host and an id
Canonical(host, id) == Some(<<host, "/embeds/">> \o id \o <<"/content">>)

\* C9 as stated: for an input matching https://<host>/document/<digits>/...
\* the normalizer returns https://<host>/embeds/<digits>/content with the
\* host and the digits of the input.
C9_AnyHost ==
    (pc # "ui" /\ url_input # <<>>) =>
        \A i \in 1..Len(url_input), k \in 1..Len(url_input) :
            (/\ HostMatchAt(url_input, i, k)
             /\ ~\E i2 \in 1..(i - 1), k2 \in 1..Len(url_input) :
                    HostMatchAt(url_input, i2, k2))
                => embed_url = Canonical(url_input[i], SubSeq(url_input, i + 2, i + 1 + k))

\* C9 amended: for an input containing
\* https://www.scribd.com/document/<digits>/ the normalizer returns
\* https://www.scribd.com/embeds/<digits>/content with the digits of the
\* first such occurrence, a function of those digits alone.
C9_WwwHost ==
    (pc # "ui" /\ url_input # <<>>) =>
        \A i \in 1..Len(url_input), k \in 1..Len(url_input) :
            (/\ WwwMatchAt(url_input, i, k)
             /\ ~\E i2 \in 1..(i - 1), k2 \in 1..Len(url_input) :
                    WwwMatchAt(url_input, i2, k2))
                => embed_url = Canonical(WWW, SubSeq(url_input, i + 2, i + 1 + k))

C9_Witness ==
    /\ pc = "setup_driver"
    /\ url_input = <<WWW, DOCUMENT, "4", "2", "/">>
    /\ embed_url = Some(<<WWW, "/embeds/", "4", "2", "/content">>)

\* the page elements of the loaded document, in document order
PagesInOrder ==
    InOrder({el \in 1..Len(dom0.nodes) : Contains(dom0.nodes[el].cls, "page")})

\* C10: the browser operations of a run are a prefix of: get, find_elements,
\* scrollIntoView of every page element in document order, cleanup_script,
\* Page.printToPDF (once, after the sanitizer ran), and quit is the last
\* operation: nothing is issued on a closed session.
C10_Ordered ==
    LET closed == ops # <<>> /\ ops[Len(ops)].op = "quit"
        body == IF closed THEN SubSeq(ops, 1, Len(ops) - 1) ELSE ops
        expected == <<Op("get", 0), Op("find_elements", 0)>>
                    \o [k \in 1..Len(PagesInOrder) |-> Op("scrollIntoView", PagesInOrder[k])]
                    \o <<Op("cleanup_script", 0), Op("Page.printToPDF", 0)>>
    IN  /\ Len(body) <= Len(expected)
        /\ body = SubSeq(expected, 1, Len(body))
        /\ (driver = "closed") <=> closed
        /\ (Len(body) = Len(expected)) => runs = 1

C10_Witness ==
    /\ pc = "returned"
    /\ Len(page_elements) = 2
    /\ Len(ops) = 7
    /\ ops[6] = Op("Page.printToPDF", 0)
    /\ ops[7] = Op("quit", 0)
    /\ ~result.isNone

====
